---------------------------- MODULE Spec2Model ----------------------------
(***************************************************************************)
(* The two proto build scripts, scripts/proto/compile_python.py ("py") and *)
(* scripts/proto/compile_typescript.py ("ts"), as state machines over a    *)
(* small filesystem and the external processes they start.                 *)
(*                                                                         *)
(* Each script is a module body executed top to bottom: mkdir, glob, a     *)
(* loop of subprocess.run calls, (py only) one protol call, a final log.   *)
(* subprocess.run is modelled by what it does: it starts the program and   *)
(* raises when the program cannot be started (OSError, whatever `check`    *)
(* is); it then blocks until the child exits; with check=False the exit    *)
(* status is dropped.                                                      *)
(*                                                                         *)
(* The environment: which *.proto files PROTO_DIR holds (it may change     *)
(* while a script runs), whether each output directory exists beforehand,  *)
(* whether each program is installed, and the exit status each tool gives  *)
(* for each input.  Tools are functions of their input: the status a tool  *)
(* gave for an input is the status it gives for that input again.          *)
(***************************************************************************)
EXTENDS Naturals, FiniteSets

\* ------------------------------------------------------------------ bounds
\* Proto file names that may ever appear in PROTO_DIR.
MaxFiles == 2
\* How often the environment adds or removes a proto file in one behaviour.
MaxEnvChanges == 1
\* How often one script is run in a row (SpecRerun).
MaxRuns == 2

Files == 1..MaxFiles

\* ------------------------------------------------------------- the scripts
Pipelines == {"py", "ts"}

\* compile_python.py:13 and compile_typescript.py:13, the two output paths.
COMPILED_PY_DIR == "backend/packages/proto/proto/compiled"
COMPILED_TS_DIR == "packages/proto/src/lib/gen"
Dirs == {COMPILED_PY_DIR, COMPILED_TS_DIR}

\* Mutant: both scripts were given the same output path.
OutDirShared(p) == COMPILED_PY_DIR

\* The directory a script creates and passes in the *_out flags.
OutDirOf(p) == IF p = "py" THEN COMPILED_PY_DIR ELSE COMPILED_TS_DIR

\* argv[0] of the per-file compiler call: "python" (-m grpc_tools.protoc)
\* in compile_python.py:23, "protoc" in compile_typescript.py:24.
CompilerOf(p) == IF p = "py" THEN "python" ELSE "protoc"

\* argv[0] of the import-fixing call, compile_python.py:39.
PROTOL == "protol"
Tools == {"python", "protoc", PROTOL}

\* Mutant: the protol call was copied into compile_typescript.py too.
HasFixerAlways(p) == TRUE

\* Only compile_python.py has the protol call (lines 35-48).
HasFixer(p) == p = "py"

\* The artifact protol --create-package adds beside the generated modules.
PKG == 0

VARIABLES
    PROTO_DIR,   \* the *.proto files the directory proto/ now holds
    rank,        \* the order in which the filesystem lists PROTO_DIR
    outDir,      \* per output directory: exists, arts (generated artifacts,
                 \* by proto file, and PKG), fixed (modules protol rewrote)
    installed,   \* per program: "?" (not yet tried), "yes", "no"
    verdict,     \* per script and proto file: the compiler's exit status for
                 \* it, "?" until the compiler has run on it
    fixVerdict,  \* per script: the (args, status) of protol's last exit
    nchanges,    \* environment changes so far
    active,      \* the scripts that are run in this behaviour
    pc,          \* per script: where its module body is
    proto_files, \* per script: what the loop's glob enumerated (found)
    todo,        \* per script: what the loop has still to yield
    proto_file,  \* per script: the loop variable (0: unset)
    running,     \* per script: child processes started and not yet exited
    ncompile,    \* per script and file: subprocess.run calls of the compiler
    status,      \* per script and file: "none", "running", "raised", "0", "1"
    nfix,        \* per script: subprocess.run calls of protol
    fixArgs,     \* per script: the files on protol's command line
    fixStatus,   \* per script: "none", "running", "raised", "0", "1"
    logged,      \* per script: the final "compiled to" line was logged
    created,     \* per script: mkdir found the directory absent
    changed,     \* per script: PROTO_DIR changed since the loop's glob
    run,         \* per script: which run this is (1..MaxRuns)
    prev         \* per script: what the previous run did and left

env == <<PROTO_DIR, rank, installed, verdict, fixVerdict, nchanges, active>>
calls == <<ncompile, status, nfix, fixArgs, fixStatus>>
locals == <<pc, proto_files, todo, proto_file, running, logged, created, changed>>
vars == <<env, outDir, calls, locals, run, prev>>

NoRun == [ncompile |-> [f \in Files |-> 0], status |-> [f \in Files |-> "none"],
          nfix |-> 0, fixArgs |-> {}, fixStatus |-> "none",
          pc |-> "start", out |-> [exists |-> FALSE, arts |-> {}, fixed |-> {}]]

\* ------------------------------------------------------------ initial state
\* Before a script starts: any set of proto files, listed by the filesystem
\* in any one order, each output directory absent or present and empty,
\* nothing known yet about the tools.
InitEnv ==
    /\ PROTO_DIR \in SUBSET Files
    /\ rank \in {r \in [Files -> Files] : \A f, g \in Files : r[f] = r[g] => f = g}
    /\ outDir \in [Dirs -> {[exists |-> e, arts |-> {}, fixed |-> {}] : e \in BOOLEAN}]
    /\ installed = [t \in Tools |-> "?"]
    /\ verdict = [p \in Pipelines |-> [f \in Files |-> "?"]]
    /\ fixVerdict = [p \in Pipelines |-> [args |-> {}, status |-> "?"]]
    /\ nchanges = 0

InitScripts ==
    /\ pc = [p \in Pipelines |-> "start"]
    /\ proto_files = [p \in Pipelines |-> {}]
    /\ todo = [p \in Pipelines |-> {}]
    /\ proto_file = [p \in Pipelines |-> 0]
    /\ running = [p \in Pipelines |-> {}]
    /\ ncompile = [p \in Pipelines |-> [f \in Files |-> 0]]
    /\ status = [p \in Pipelines |-> [f \in Files |-> "none"]]
    /\ nfix = [p \in Pipelines |-> 0]
    /\ fixArgs = [p \in Pipelines |-> {}]
    /\ fixStatus = [p \in Pipelines |-> "none"]
    /\ logged = [p \in Pipelines |-> FALSE]
    /\ created = [p \in Pipelines |-> FALSE]
    /\ changed = [p \in Pipelines |-> FALSE]
    /\ run = [p \in Pipelines |-> 1]
    /\ prev = [p \in Pipelines |-> NoRun]

\* ---------------------------------------------------------------- helpers
\* Mutant: mkdir without exist_ok=True raises FileExistsError on a directory
\* that is already there.
MkdirNotExistOk(exists) == exists

\* Path.mkdir(parents=True, exist_ok=True): no FileExistsError when the
\* directory is already there.
MkdirRaises(exists) == FALSE

\* Mutant: check=True raises CalledProcessError on a non-zero exit status.
CheckTrueRaises(s) == s # "0"

\* subprocess.run(..., check=False): a non-zero exit status raises nothing.
CheckRaises(s) == FALSE

\* Mutant: subprocess.Popen instead of subprocess.run starts the child and
\* goes on with the loop without waiting for it.
AfterSpawnNoWait(p) == "loop"

\* subprocess.run returns only when the child has exited: after a start the
\* script sits in the call (pc "compiling") until the exit.
AfterSpawn(p) == "compiling"

\* Mutant: the loop stops one file short.
LoopEndsEarly(p) == Cardinality(todo[p]) <= 1

\* Mutant: the statements after the loop are indented into it and run
\* whether or not files are left.
LoopNotAwaited(p) == TRUE

\* The statements after the for loop (compile_python.py:35-37,
\* compile_typescript.py:34) are reached when the loop's iterator is
\* exhausted.
LoopExhausted(p) == todo[p] = {}

\* PROTO_DIR.glob("*.proto"): the matching entries of the directory at the
\* time it is scanned.
Glob == PROTO_DIR

\* The element a glob iterator with S left yields next: the first of S in
\* the filesystem's listing order.
NextOf(S) == CHOOSE f \in S : \A g \in S : rank[f] <= rank[g]

\* Mutant: the file list was left off protol's command line.
ProtolArgsNone(p) == {}

\* The proto files on protol's command line: *[str(f) for f in
\* PROTO_DIR.glob("*.proto")], a second enumeration of the directory.
ProtolArgs(p) == Glob

\* Whether starting `tool` may have outcome ok (TRUE: the child runs; FALSE:
\* subprocess.run raises FileNotFoundError): a program already seen
\* installed or missing stays so.
CanSpawn(tool, ok) ==
    \/ installed[tool] = "?"
    \/ installed[tool] = (IF ok THEN "yes" ELSE "no")

Spawned(tool, ok) == [installed EXCEPT ![tool] = IF ok THEN "yes" ELSE "no"]


\* A child process of a script: the program and the proto file it was given
\* (PKG for protol, which is given them all).
Proc(tool, f) == <<tool, f>>

\* What a compiler exit leaves in the output directory d: with status "0"
\* the module generated from f, written anew (imports as generated); with
\* any other status nothing.
Compiled(d, f, s) ==
    IF s = "0"
    THEN [outDir EXCEPT ![d].arts = @ \cup {f}, ![d].fixed = @ \ {f}]
    ELSE outDir

\* What a protol exit leaves in d: with status "0" the imports of the
\* generated modules of the files on its command line rewritten in place,
\* and the package file created.
Fixed(d, args, s) ==
    IF s = "0"
    THEN [outDir EXCEPT ![d].fixed = @ \cup (args \cap outDir[d].arts),
                        ![d].arts = @ \cup {PKG}]
    ELSE outDir

\* ---------------------------------------------------------------- actions
\* Mutant: the mkdir line is missing; the script goes straight to the loop.
MkdirForgotten(p) ==
    /\ pc[p] = "start"
    /\ pc' = [pc EXCEPT ![p] = "glob"]
    /\ UNCHANGED <<env, outDir, calls, proto_files, todo, proto_file, running,
                   logged, created, changed, run, prev>>

\* COMPILED_*_DIR.mkdir(parents=True, exist_ok=True)
Mkdir(p) ==
    /\ pc[p] = "start"
    /\ IF MkdirRaises(outDir[OutDirOf(p)].exists)
       THEN /\ pc' = [pc EXCEPT ![p] = "crashed"]
            /\ UNCHANGED <<outDir, created>>
       ELSE /\ pc' = [pc EXCEPT ![p] = "glob"]
            /\ outDir' = [outDir EXCEPT ![OutDirOf(p)].exists = TRUE]
            /\ created' = [created EXCEPT ![p] = ~outDir[OutDirOf(p)].exists]
    /\ UNCHANGED <<env, calls, proto_files, todo, proto_file, running, logged,
                   changed, run, prev>>

\* logger.info("Compiling ..."); the loop's PROTO_DIR.glob("*.proto")
\* (ts: proto_files = list(...)).  pathlib lists the directory once, when
\* the iterator is first advanced, and yields from that listing: in both
\* scripts the loop runs over what PROTO_DIR held before the first file.
StartLoop(p) ==
    /\ pc[p] = "glob"
    /\ proto_files' = [proto_files EXCEPT ![p] = Glob]
    /\ todo' = [todo EXCEPT ![p] = Glob]
    /\ pc' = [pc EXCEPT ![p] = "loop"]
    /\ changed' = [changed EXCEPT ![p] = FALSE]
    /\ UNCHANGED <<env, outDir, calls, proto_file, running, logged, created, run, prev>>

\* The loop yields the next proto_file and subprocess.run starts the
\* compiler on it; a compiler that cannot be started makes subprocess.run
\* raise, which ends the script.
CompileStart(p) ==
    /\ pc[p] = "loop"
    /\ todo[p] # {}
    /\ \E f \in {NextOf(todo[p])}, ok \in BOOLEAN :
        /\ CanSpawn(CompilerOf(p), ok)
        /\ installed' = Spawned(CompilerOf(p), ok)
        /\ todo' = [todo EXCEPT ![p] = @ \ {f}]
        /\ proto_file' = [proto_file EXCEPT ![p] = f]
        /\ ncompile' = [ncompile EXCEPT ![p][f] = @ + 1]
        /\ IF ok
           THEN /\ running' = [running EXCEPT ![p] = @ \cup {Proc(CompilerOf(p), f)}]
                /\ status' = [status EXCEPT ![p][f] = "running"]
                /\ pc' = [pc EXCEPT ![p] = AfterSpawn(p)]
           ELSE /\ status' = [status EXCEPT ![p][f] = "raised"]
                /\ pc' = [pc EXCEPT ![p] = "crashed"]
                /\ UNCHANGED running
    /\ UNCHANGED <<PROTO_DIR, rank, verdict, fixVerdict, nchanges, active, outDir,
                   nfix, fixArgs, fixStatus, proto_files, logged, created,
                   changed, run, prev>>

\* The compiler started on proto_file exits; subprocess.run returns its
\* status, which check=False makes it drop, and the loop goes on.  The
\* status is the tool's verdict on the file (a tool without its output
\* directory exits non-zero).
CompileExit(p) ==
    /\ pc[p] = "compiling"
    /\ \E v \in {"0", "1"} :
        LET f == proto_file[p]
            d == OutDirOf(p)
            s == IF outDir[d].exists THEN v ELSE "1"
        IN  /\ verdict[p][f] \in {"?", v}
            /\ verdict' = [verdict EXCEPT ![p][f] = v]
            /\ outDir' = Compiled(d, f, s)
            /\ status' = [status EXCEPT ![p][f] = s]
            /\ running' = [running EXCEPT ![p] = @ \ {Proc(CompilerOf(p), f)}]
            /\ pc' = [pc EXCEPT ![p] = IF CheckRaises(s) THEN "crashed" ELSE "loop"]
    /\ UNCHANGED <<PROTO_DIR, rank, installed, fixVerdict, nchanges, active, ncompile,
                   nfix, fixArgs, fixStatus, proto_files, todo, proto_file, logged, created,
                   changed, run, prev>>

\* After the loop: logger.info("Fixing imports ..."), then subprocess.run
\* starts protol on a second PROTO_DIR.glob("*.proto"), scanned now.
FixStart(p) ==
    /\ HasFixer(p)
    /\ pc[p] = "loop"
    /\ LoopExhausted(p)
    /\ fixArgs' = [fixArgs EXCEPT ![p] = ProtolArgs(p)]
    /\ nfix' = [nfix EXCEPT ![p] = @ + 1]
    /\ \E ok \in BOOLEAN :
        /\ CanSpawn(PROTOL, ok)
        /\ installed' = Spawned(PROTOL, ok)
        /\ IF ok
           THEN /\ running' = [running EXCEPT ![p] = @ \cup {Proc(PROTOL, PKG)}]
                /\ fixStatus' = [fixStatus EXCEPT ![p] = "running"]
                /\ pc' = [pc EXCEPT ![p] = "fixing"]
           ELSE /\ fixStatus' = [fixStatus EXCEPT ![p] = "raised"]
                /\ pc' = [pc EXCEPT ![p] = "crashed"]
                /\ UNCHANGED running
    /\ UNCHANGED <<PROTO_DIR, rank, verdict, fixVerdict, nchanges, active, outDir,
                   ncompile, status, proto_files, todo, proto_file, logged, created, changed,
                   run, prev>>

\* protol exits; its status is dropped too (check=False).
FixExit(p) ==
    /\ pc[p] = "fixing"
    /\ \E v \in {"0", "1"} :
        LET d == OutDirOf(p)
            s == IF outDir[d].exists THEN v ELSE "1"
        IN  /\ \/ fixVerdict[p].status = "?"
               \/ fixVerdict[p].args # fixArgs[p]
               \/ fixVerdict[p].status = v
            /\ fixVerdict' = [fixVerdict EXCEPT ![p] = [args |-> fixArgs[p], status |-> v]]
            /\ outDir' = Fixed(d, fixArgs[p], s)
            /\ fixStatus' = [fixStatus EXCEPT ![p] = s]
            /\ running' = [running EXCEPT ![p] = @ \ {Proc(PROTOL, PKG)}]
            /\ pc' = [pc EXCEPT ![p] = IF CheckRaises(s) THEN "crashed" ELSE "log"]
    /\ UNCHANGED <<PROTO_DIR, rank, installed, verdict, nchanges, active, ncompile,
                   status, nfix, fixArgs, proto_files, todo, proto_file, logged, created,
                   changed, run, prev>>

\* The last statement: logger.info("... proto files compiled to %s ...").
\* In compile_typescript.py it follows the loop directly.
LogDone(p) ==
    /\ \/ pc[p] = "log"
       \/ ~HasFixer(p) /\ pc[p] = "loop" /\ LoopExhausted(p)
    /\ logged' = [logged EXCEPT ![p] = TRUE]
    /\ pc' = [pc EXCEPT ![p] = "done"]
    /\ UNCHANGED <<env, outDir, calls, proto_files, todo, proto_file, running, created,
                   changed, run, prev>>

\* One statement of script p's module body (or the exit of the child it
\* is waiting for).
ScriptStep(p) ==
    \/ Mkdir(p)
    \/ StartLoop(p)
    \/ CompileStart(p)
    \/ CompileExit(p)
    \/ FixStart(p)
    \/ FixExit(p)
    \/ LogDone(p)

\* Somebody adds a proto file to PROTO_DIR or removes one, at any time.
EnvChange ==
    /\ nchanges < MaxEnvChanges
    /\ \E f \in Files :
        PROTO_DIR' = IF f \in PROTO_DIR THEN PROTO_DIR \ {f} ELSE PROTO_DIR \cup {f}
    /\ nchanges' = nchanges + 1
    /\ changed' = [p \in Pipelines |-> changed[p] \/ pc[p] \in {"loop", "compiling"}]
    /\ UNCHANGED <<rank, installed, verdict, fixVerdict, active, outDir, calls, pc,
                   proto_files, todo, proto_file, running, logged, created, run, prev>>

\* The script is run again, on what its last run left behind.
Rerun(p) ==
    /\ pc[p] \in {"done", "crashed"}
    /\ run[p] < MaxRuns
    /\ run' = [run EXCEPT ![p] = @ + 1]
    /\ prev' = [prev EXCEPT ![p] =
                    [ncompile |-> ncompile[p], status |-> status[p], nfix |-> nfix[p],
                     fixArgs |-> fixArgs[p], fixStatus |-> fixStatus[p],
                     pc |-> pc[p], out |-> outDir[OutDirOf(p)]]]
    /\ pc' = [pc EXCEPT ![p] = "start"]
    /\ proto_files' = [proto_files EXCEPT ![p] = {}]
    /\ todo' = [todo EXCEPT ![p] = {}]
    /\ proto_file' = [proto_file EXCEPT ![p] = 0]
    /\ ncompile' = [ncompile EXCEPT ![p] = [f \in Files |-> 0]]
    /\ status' = [status EXCEPT ![p] = [f \in Files |-> "none"]]
    /\ nfix' = [nfix EXCEPT ![p] = 0]
    /\ fixArgs' = [fixArgs EXCEPT ![p] = {}]
    /\ fixStatus' = [fixStatus EXCEPT ![p] = "none"]
    /\ logged' = [logged EXCEPT ![p] = FALSE]
    /\ created' = [created EXCEPT ![p] = FALSE]
    /\ changed' = [changed EXCEPT ![p] = FALSE]
    /\ UNCHANGED <<env, outDir, running>>

\* ---------------------------------------------------------- specifications
\* One script is run once, while PROTO_DIR may change under it.
Init == InitEnv /\ InitScripts /\ active \in {{p} : p \in Pipelines}

Next ==
    \/ \E p \in active : Mkdir(p)
    \/ \E p \in active : StartLoop(p)
    \/ \E p \in active : CompileStart(p)
    \/ \E p \in active : CompileExit(p)
    \/ \E p \in active : FixStart(p)
    \/ \E p \in active : FixExit(p)
    \/ \E p \in active : LogDone(p)
    \/ EnvChange

Spec == Init /\ [][Next]_vars

\* Both scripts are run in parallel, their steps interleaved in any way.
InitPar == InitEnv /\ InitScripts /\ active = Pipelines

NextPar ==
    \/ \E p \in active : Mkdir(p)
    \/ \E p \in active : StartLoop(p)
    \/ \E p \in active : CompileStart(p)
    \/ \E p \in active : CompileExit(p)
    \/ \E p \in active : FixStart(p)
    \/ \E p \in active : FixExit(p)
    \/ \E p \in active : LogDone(p)

SpecPar == InitPar /\ [][NextPar]_vars

\* One script is run MaxRuns times in a row on unchanged proto files.
NextRerun ==
    \/ \E p \in active : Mkdir(p)
    \/ \E p \in active : StartLoop(p)
    \/ \E p \in active : CompileStart(p)
    \/ \E p \in active : CompileExit(p)
    \/ \E p \in active : FixStart(p)
    \/ \E p \in active : FixExit(p)
    \/ \E p \in active : LogDone(p)
    \/ \E p \in active : Rerun(p)

SpecRerun == Init /\ [][NextRerun]_vars

\* ------------------------------------------------------- claim vocabulary
Ended(p) == pc[p] \in {"done", "crashed"}

\* The files script p has called the compiler for in this run.
Invoked(p) == {f \in Files : ncompile[p][f] > 0}

\* subprocess.run raised in this run because the compiler / any program
\* could not be started.
CompilerRaised(p) == \E f \in Files : status[p][f] = "raised"
Raised(p) == CompilerRaised(p) \/ fixStatus[p] = "raised"

\* A script that has not ended can take its next step.
CanGoOn(p) == Ended(p) \/ ENABLED ScriptStep(p)

\* ------------------------------------------------------------------- C1
\* C1 as stated: every run calls the compiler exactly once for each found
\* file and for no other file, and with no file found the run reaches its
\* end.
C1_ExactlyNInvocations ==
    \A p \in active :
        /\ \A f \in Files : ncompile[p][f] <= (IF f \in proto_files[p] THEN 1 ELSE 0)
        /\ Ended(p) => \A f \in proto_files[p] : ncompile[p][f] = 1
        /\ proto_files[p] = {} => pc[p] # "crashed" /\ CanGoOn(p)

\* C1 amended: no file is compiled twice and none that was not found; a run
\* in which the compiler can be started has, when it ends, called it exactly
\* once for each found file, each call having exited; a run in which it
\* cannot ends in the exception of the first call.  With no file found no
\* compiler call is made, and the run reaches its end unless protol cannot
\* be started.
C1_NInvocationsUnlessSpawnFails ==
    \A p \in active :
        /\ \A f \in Files : ncompile[p][f] <= (IF f \in proto_files[p] THEN 1 ELSE 0)
        /\ Ended(p) /\ ~CompilerRaised(p) =>
               \A f \in proto_files[p] : ncompile[p][f] = 1 /\ status[p][f] \in {"0", "1"}
        /\ CompilerRaised(p) =>
               /\ pc[p] = "crashed"
               /\ Invoked(p) = {NextOf(proto_files[p])}
               /\ installed[CompilerOf(p)] = "no"
        /\ proto_files[p] = {} =>
               /\ Invoked(p) = {}
               /\ pc[p] = "crashed" => fixStatus[p] = "raised"
               /\ CanGoOn(p)
        /\ CanGoOn(p)

C1_Witness ==
    \E p \in active :
        /\ pc[p] = "done"
        /\ Cardinality(proto_files[p]) >= 2
        /\ \A f \in proto_files[p] : ncompile[p][f] = 1

\* ------------------------------------------------------------------- C2
\* C2 as stated: the Python run calls protol exactly once in every run,
\* never more, and the TypeScript run never calls it.
C2_FixerExactlyOnce ==
    \A p \in active :
        /\ nfix[p] <= 1
        /\ p = "ts" => nfix[p] = 0
        /\ p = "py" /\ Ended(p) => nfix[p] = 1

\* C2 amended: protol is called at most once and never by the TypeScript
\* run; a Python run has called it exactly once when it ends, whatever the
\* compiler's exit statuses and also with no file found, unless the compiler
\* could not be started, in which case protol is not called at all.
C2_FixerOnceUnlessSpawnFails ==
    \A p \in active :
        /\ nfix[p] <= 1
        /\ p = "ts" => nfix[p] = 0
        /\ p = "py" /\ Ended(p) /\ ~CompilerRaised(p) => nfix[p] = 1
        /\ p = "py" /\ CompilerRaised(p) => nfix[p] = 0 /\ proto_files[p] # {}

C2_Witness ==
    /\ pc["py"] = "done"
    /\ nfix["py"] = 1
    /\ Cardinality(proto_files["py"]) >= 2
    /\ \E f, g \in proto_files["py"] : status["py"][f] = "0" /\ status["py"][g] = "1"

\* ------------------------------------------------------------------- C3
\* C3: once protol has been started, every compiler call of the run has been
\* made and has exited: no found file is still to be compiled, none is being
\* compiled.
C3_FixerAfterAllCompiles ==
    \A p \in active :
        nfix[p] > 0 =>
            /\ todo[p] = {}
            /\ \A f \in proto_files[p] : status[p][f] \in {"0", "1"}
            /\ \A f \in Files : Proc(CompilerOf(p), f) \notin running[p]

C3_Witness ==
    /\ fixStatus["py"] = "running"
    /\ Proc(PROTOL, PKG) \in running["py"]
    /\ Cardinality(proto_files["py"]) >= 2

\* ------------------------------------------------------------------- C4
\* C4: a run in which a compiler call exited with a non-zero status goes on
\* (it is never ended by that status), and when it ends it has called the
\* compiler for every found file and, in the Python run, protol.
C4_ContinueOnError ==
    \A p \in active :
        (\E f \in Files : status[p][f] = "1") =>
            /\ CanGoOn(p)
            /\ pc[p] = "crashed" => fixStatus[p] = "raised"
            /\ Ended(p) =>
                   /\ \A g \in proto_files[p] : ncompile[p][g] = 1
                   /\ p = "py" => nfix[p] = 1

\* The first of two found files failed, the second was compiled all the
\* same, and protol was called.
C4_Witness ==
    /\ pc["py"] = "done"
    /\ nfix["py"] = 1
    /\ \E f, g \in proto_files["py"] :
        /\ rank[f] < rank[g]
        /\ status["py"][f] = "1"
        /\ status["py"][g] = "0"

\* ------------------------------------------------------------------- C5
\* C5 as stated: no run ends in an error, whatever the external programs do,
\* a program that cannot be started included: every run goes on to its
\* final log line.
C5_AlwaysReportsCompletion ==
    \A p \in active :
        /\ pc[p] # "crashed"
        /\ CanGoOn(p)
        /\ pc[p] = "done" => logged[p]

\* C5 amended: a run ends in an error only where subprocess.run raised
\* because a program could not be started; whatever the exit statuses of the
\* programs that did start, the run goes on to its final log line and ends
\* there.
C5_CompletesUnlessSpawnFails ==
    \A p \in active :
        /\ pc[p] = "crashed" => Raised(p) /\ ~logged[p]
        /\ pc[p] = "done" <=> logged[p]
        /\ CanGoOn(p)

\* Every external call of a Python run failed, and it logged completion.
C5_Witness ==
    /\ pc["py"] = "done"
    /\ logged["py"]
    /\ Cardinality(proto_files["py"]) >= 2
    /\ \A f \in proto_files["py"] : status["py"][f] = "1"
    /\ fixStatus["py"] = "1"

\* ------------------------------------------------------------------- C6
\* C6: from the mkdir step on the script's output directory exists: when
\* any compiler call or the protol call is made, and when the run has ended,
\* with or without proto files; and no step removes an output directory.
C6_OutDirExists ==
    /\ [](\A p \in active :
            /\ pc[p] # "start" => outDir[OutDirOf(p)].exists
            /\ Invoked(p) # {} \/ nfix[p] > 0 \/ Ended(p) => outDir[OutDirOf(p)].exists)
    /\ [][\A d \in Dirs : outDir[d].exists => outDir'[d].exists]_vars

\* The directory was absent, mkdir created it, no proto file was found, and
\* the run has ended.
C6_Witness ==
    \E p \in active :
        /\ created[p]
        /\ proto_files[p] = {}
        /\ pc[p] = "done"
        /\ outDir[OutDirOf(p)].exists

\* ------------------------------------------------------------------- C7
\* C7: a second (or later) run on unchanged proto files, on what the run
\* before left: mkdir finds the directory and raises nothing; when the run
\* has ended it has made the calls of the run before, with the same
\* outcomes; every module the run before left was generated anew; and the
\* output directory holds what it held after the run before.
C7_Idempotent ==
    \A p \in active :
        run[p] > 1 =>
            /\ pc[p] # "start" => outDir[OutDirOf(p)].exists /\ ~created[p]
            /\ pc[p] = "crashed" => Raised(p)
            /\ Ended(p) =>
                   /\ ncompile[p] = prev[p].ncompile
                   /\ status[p] = prev[p].status
                   /\ nfix[p] = prev[p].nfix
                   /\ fixArgs[p] = prev[p].fixArgs
                   /\ fixStatus[p] = prev[p].fixStatus
                   /\ pc[p] = prev[p].pc
                   /\ \A f \in prev[p].out.arts \cap Files : status[p][f] = "0"
                   /\ outDir[OutDirOf(p)].arts = prev[p].out.arts
                   /\ outDir[OutDirOf(p)] = prev[p].out

C7_Witness ==
    \E p \in active :
        /\ run[p] = 2
        /\ pc[p] = "done"
        /\ Cardinality(prev[p].out.arts \cap Files) >= 2
        /\ outDir[OutDirOf(p)].arts = prev[p].out.arts

\* ------------------------------------------------------------------- C8
\* What the output directory of script p holds is explained by p's own
\* calls alone: the modules of the files whose compiler call exited with 0,
\* rewritten and with the package file if protol exited with 0.
DirIsOwn(p) ==
    LET d == outDir[OutDirOf(p)]
    IN  /\ d.arts \cap Files = {f \in Files : status[p][f] = "0"}
        /\ PKG \in d.arts <=> fixStatus[p] = "0"
        /\ d.fixed = (IF fixStatus[p] = "0" THEN fixArgs[p] \cap d.arts ELSE {})

\* What script p does when it runs alone on the files it found, given the
\* filesystem's order, the programs installed and the tools' verdicts.
AsAlone(p) ==
    IF proto_files[p] # {} /\ installed[CompilerOf(p)] = "no"
    THEN /\ pc[p] = "crashed"
         /\ ncompile[p] = [f \in Files |-> IF f = NextOf(proto_files[p]) THEN 1 ELSE 0]
         /\ status[p] = [f \in Files |-> IF f = NextOf(proto_files[p]) THEN "raised" ELSE "none"]
         /\ nfix[p] = 0 /\ fixStatus[p] = "none" /\ fixArgs[p] = {}
    ELSE /\ ncompile[p] = [f \in Files |-> IF f \in proto_files[p] THEN 1 ELSE 0]
         /\ status[p] = [f \in Files |-> IF f \in proto_files[p] THEN verdict[p][f] ELSE "none"]
         /\ \A f \in proto_files[p] : verdict[p][f] \in {"0", "1"}
         /\ IF p = "ts"
            THEN pc[p] = "done" /\ nfix[p] = 0 /\ fixStatus[p] = "none" /\ fixArgs[p] = {}
            ELSE /\ nfix[p] = 1
                 /\ fixArgs[p] = proto_files[p]
                 /\ IF installed[PROTOL] = "no"
                    THEN pc[p] = "crashed" /\ fixStatus[p] = "raised"
                    ELSE /\ pc[p] = "done"
                         /\ fixStatus[p] = fixVerdict[p].status
                         /\ fixStatus[p] \in {"0", "1"}

\* C8: under every interleaving of the two scripts, each output directory
\* holds at every moment only what its own script's calls put there, and a
\* script that has ended has made the calls, with the outcomes, of a run
\* alone.
C8_Independent ==
    \A p \in Pipelines :
        /\ DirIsOwn(p)
        /\ Ended(p) => AsAlone(p)

\* Both scripts have a child running at the same time, each after having
\* written into its own directory.
C8_Witness ==
    /\ pc["py"] = "fixing"
    /\ pc["ts"] = "compiling"
    /\ outDir[COMPILED_PY_DIR].arts # {}
    /\ outDir[COMPILED_TS_DIR].arts # {}

\* ------------------------------------------------------------------- C9
\* C9: a run has at most one child process running; while one runs the
\* script sits in the subprocess.run call that started it, so the next
\* compiler call starts only after the one before has exited.
C9_OneChildAtATime ==
    \A p \in active :
        /\ Cardinality(running[p]) <= 1
        /\ running[p] # {} => pc[p] \in {"compiling", "fixing"}
        /\ \A f, g \in Files :
               status[p][f] = "running" /\ g # f => status[p][g] \in {"none", "0", "1"}
        /\ \A f \in Files :
               status[p][f] = "running" <=> Proc(CompilerOf(p), f) \in running[p]

\* The second compiler call is running, the first has exited.
C9_Witness ==
    \E p \in active : \E f, g \in Files :
        /\ status[p][f] \in {"0", "1"}
        /\ status[p][g] = "running"
        /\ running[p] = {Proc(CompilerOf(p), g)}

\* ------------------------------------------------------------------ C10
\* C10: protol's file list is what PROTO_DIR holds when protol is called, a
\* second enumeration; if PROTO_DIR did not change between the loop's
\* enumeration and that one, protol is given exactly the files the compiler
\* was called for; and a script only ever compiles files of the enumeration
\* its loop made, the TypeScript run all of them, whatever happens to
\* PROTO_DIR meanwhile.
C10_FixerGetsCompiledFiles ==
    /\ [](/\ nfix["py"] > 0 /\ ~changed["py"] => fixArgs["py"] = Invoked("py")
          /\ \A p \in active : Invoked(p) \subseteq proto_files[p]
          /\ pc["ts"] = "done" => Invoked("ts") = proto_files["ts"])
    /\ [][nfix'["py"] > nfix["py"] => fixArgs'["py"] = PROTO_DIR]_vars

\* protol was called on two files, PROTO_DIR having changed only before the
\* loop's enumeration.
C10_Witness ==
    /\ nfix["py"] = 1
    /\ ~changed["py"]
    /\ nchanges > 0
    /\ Cardinality(fixArgs["py"]) >= 2

TypeOK ==
    /\ PROTO_DIR \subseteq Files
    /\ \A p \in Pipelines :
        /\ pc[p] \in {"start", "glob", "loop", "compiling", "fixing", "log", "done", "crashed"}
        /\ proto_files[p] \subseteq Files /\ todo[p] \subseteq proto_files[p]
        /\ proto_file[p] \in Files \cup {0}
        /\ run[p] \in 1..MaxRuns

=============================================================================
